---------------------------- MODULE Spec2Model ----------------------------
(* Model of src/app.py: the Flask service whose POST /generate handler     *)
(* (generate_music) forwards a text description and a duration to the      *)
(* MusicGen model, writes the waveform to                                   *)
(* static/generated/generated_music_<timestamp>.wav and answers with a     *)
(* JSON payload.  Requests may be handled concurrently (the development    *)
(* server is threaded and the handler takes no lock), so the handler is    *)
(* split where it touches shared state: the clock and the file system.     *)
EXTENDS Integers, Sequences, FiniteSets, TLC

VARIABLES
    model,        \* module-level `model`: "loaded" or "None"
    processor,    \* module-level `processor`: "loaded" or "None"
    clock,        \* the wall clock, in whole seconds (datetime.now())
    dirExists,    \* whether static/generated exists
    files,        \* the files under static/generated: path -> set of the
                  \* requests whose samples the file holds
    pc,           \* each request's position in generate_music
    body,         \* each request's JSON body
    issued,       \* the second in which each request arrived
    afterFailure, \* whether some request had ended in an error when it arrived
    description,  \* local `description`
    duration,     \* local `duration`
    call,         \* what the request handed to processor(...)/model.generate(...)
    now,          \* the clock value read by datetime.now() at line 69
    filename,     \* local `filename`
    overlap,      \* whether another write to the same path ran during this one
    writes,       \* how many files the request opened for writing
    response,     \* the response returned
    steps,        \* the handler steps that completed without an exception
    raised        \* the exception caught by the handler, if any

vars == <<model, processor, clock, dirExists, files, pc, body, issued,
          afterFailure, description, duration, call, now, filename, overlap,
          writes, response, steps, raised>>

---------------------------------------------------------------------------
(* Bounds *)

MaxRequests == 2
MaxTicks == 1
StartSecond == 58

Requests == 1..MaxRequests

---------------------------------------------------------------------------
(* Program constants *)

TokensPerSecond == 50
DefaultDuration == 10
HttpOk == 200
HttpServerError == 500

---------------------------------------------------------------------------
(* JSON request bodies.  A field is present or absent; the duration field  *)
(* holds an integer, a string (a sequence of characters) or null.          *)

JInt(n) == [kind |-> "int", int |-> n, str |-> <<>>]
JStr(s) == [kind |-> "str", int |-> 0, str |-> s]
JNull == [kind |-> "null", int |-> 0, str |-> <<>>]

Body(hasDesc, desc, hasDur, dur) ==
    [json |-> TRUE, hasDesc |-> hasDesc, desc |-> desc,
     hasDur |-> hasDur, dur |-> dur]

\* A body that is not JSON: request.json raises.
NotJson == [json |-> FALSE, hasDesc |-> FALSE, desc |-> "",
            hasDur |-> FALSE, dur |-> JNull]
NoBody == [json |-> FALSE, hasDesc |-> FALSE, desc |-> "none",
           hasDur |-> FALSE, dur |-> JNull]

DurationValues ==
    {JInt(n) : n \in {-2, -1, 0, 1, 2, 4, 1000000}}
      \cup {JStr(s) : s \in {<<"3">>, <<"-", "1">>, <<"1", "2">>,
                            <<"a", "b">>, <<>>}}
      \cup {JNull}

AllBodies ==
    {NotJson}
      \cup {Body(TRUE, d, TRUE, v) : d \in {"", "jazz"}, v \in DurationValues}
      \cup {Body(FALSE, "", TRUE, v) : v \in DurationValues}
      \cup {Body(TRUE, d, FALSE, JNull) : d \in {"", "jazz"}}
      \cup {Body(FALSE, "", FALSE, JNull)}

\* The bodies of the concurrent specification: one the handler accepts and
\* one whose duration cannot be coerced.
Bodies == {Body(TRUE, "jazz", TRUE, JInt(1)),
           Body(TRUE, "jazz", TRUE, JStr(<<"a", "b">>))}

---------------------------------------------------------------------------
(* Input coercion: lines 44-45 *)

Digits == {"0", "1", "2", "3", "4", "5", "6", "7", "8", "9"}

DigitValue(c) ==
    CASE c = "0" -> 0 [] c = "1" -> 1 [] c = "2" -> 2 [] c = "3" -> 3
      [] c = "4" -> 4 [] c = "5" -> 5 [] c = "6" -> 6 [] c = "7" -> 7
      [] c = "8" -> 8 [] c = "9" -> 9

IsDigits(s) == Len(s) > 0 /\ \A i \in 1..Len(s) : s[i] \in Digits

RECURSIVE DigitsValue(_)
DigitsValue(s) ==
    IF s = <<>> THEN 0
    ELSE 10 * DigitsValue(SubSeq(s, 1, Len(s) - 1)) + DigitValue(s[Len(s)])

\* Python's int(v): [ok, val, err].
PyInt(v) ==
    CASE v.kind = "int" -> [ok |-> TRUE, val |-> v.int, err |-> ""]
      [] v.kind = "null" ->
           [ok |-> FALSE, val |-> 0,
            err |-> "int() argument must be a string or a real number"]
      [] v.kind = "str" ->
           IF IsDigits(v.str)
           THEN [ok |-> TRUE, val |-> DigitsValue(v.str), err |-> ""]
           ELSE IF Len(v.str) > 1 /\ v.str[1] = "-" /\ IsDigits(Tail(v.str))
           THEN [ok |-> TRUE, val |-> 0 - DigitsValue(Tail(v.str)), err |-> ""]
           ELSE [ok |-> FALSE, val |-> 0,
                 err |-> "invalid literal for int() with base 10"]

GetDescriptionDefaultText(b) == IF b.hasDesc THEN b.desc ELSE "music"

\* request.json.get('description', '')
GetDescription(b) == IF b.hasDesc THEN b.desc ELSE ""

\* request.json.get('duration', 10)
GetDuration(b) == IF b.hasDur THEN b.dur ELSE JInt(DefaultDuration)

MaxLengthClamped(d) == IF d < 0 THEN 0 ELSE d * TokensPerSecond

\* max_length=duration * 50
MaxLength(d) == d * TokensPerSecond

NoCall == [text |-> <<>>, max_length |-> 0]

---------------------------------------------------------------------------
(* File names: lines 69-71 and 85 *)

StrftimeMinutes(t) == <<t \div 86400, (t \div 3600) % 24, (t \div 60) % 60, 0>>

\* strftime("%Y%m%d_%H%M%S"): the date (as a day number), hour, minute, second
Strftime(t) ==
    <<t \div 86400, (t \div 3600) % 24, (t \div 60) % 60, t % 60>>

\* f"generated_music_{timestamp}.wav"
Filename(t) ==
    [prefix |-> "generated_music_", stamp |-> Strftime(t), ext |-> ".wav"]

NoName == [prefix |-> "", stamp |-> <<>>, ext |-> ""]

\* os.path.join('static', 'generated', filename)
Filepath(name) == [dir |-> "static/generated", name |-> name]

\* f'/static/generated/{filename}'
PublicPath(name) == [dir |-> "/static/generated", name |-> name]

NoPath == [dir |-> "", name |-> NoName]

\* The file a public path is served from (Flask's static route).
StaticFile(url) == [dir |-> "static/generated", name |-> url.name]

---------------------------------------------------------------------------
(* Responses *)

NoResponse == [code |-> 0, status |-> "", message |-> "", file_path |-> NoPath]

\* lines 38-41
NotInitializedResponse ==
    [code |-> HttpServerError, status |-> "error",
     message |-> "Model not initialized properly", file_path |-> NoPath]

ErrorResponseGeneric(msg) ==
    [code |-> HttpServerError, status |-> "error",
     message |-> "Generation failed", file_path |-> NoPath]

ErrorResponseNoCode(msg) ==
    [code |-> HttpOk, status |-> "error", message |-> msg, file_path |-> NoPath]

\* lines 90-93
ErrorResponse(msg) ==
    [code |-> HttpServerError, status |-> "error", message |-> msg,
     file_path |-> NoPath]

SuccessResponseFreshStamp(r) ==
    [code |-> HttpOk, status |-> "success", message |-> "",
     file_path |-> PublicPath(Filename(clock))]

\* lines 83-86
SuccessResponse(r) ==
    [code |-> HttpOk, status |-> "success", message |-> "",
     file_path |-> PublicPath(filename[r])]

NoException == [at |-> "", msg |-> ""]

ModelErrors == {"CUDA out of memory"}

---------------------------------------------------------------------------
(* Startup: lines 16-29.  Either both loads succeed, or the except clause  *)
(* sets both handles to None.                                               *)

Init ==
    /\ \E loaded \in BOOLEAN :
         /\ model = IF loaded THEN "loaded" ELSE "None"
         /\ processor = IF loaded THEN "loaded" ELSE "None"
    /\ clock = StartSecond
    /\ dirExists \in BOOLEAN
    /\ files = << >>
    /\ pc = [r \in Requests |-> "idle"]
    /\ body = [r \in Requests |-> NoBody]
    /\ issued = [r \in Requests |-> 0]
    /\ afterFailure = [r \in Requests |-> FALSE]
    /\ description = [r \in Requests |-> ""]
    /\ duration = [r \in Requests |-> 0]
    /\ call = [r \in Requests |-> NoCall]
    /\ now = [r \in Requests |-> 0]
    /\ filename = [r \in Requests |-> NoName]
    /\ overlap = [r \in Requests |-> FALSE]
    /\ writes = [r \in Requests |-> 0]
    /\ response = [r \in Requests |-> NoResponse]
    /\ steps = [r \in Requests |-> {}]
    /\ raised = [r \in Requests |-> NoException]

---------------------------------------------------------------------------
(* The handler *)

AvailableUnchecked == TRUE

\* line 37, negated: model is not None and processor is not None
Available == model # "None" /\ processor # "None"

Respond(r, resp) ==
    /\ response' = [response EXCEPT ![r] = resp]
    /\ pc' = [pc EXCEPT ![r] = "done"]

FailDropsModel(r, at, msg) ==
    /\ Respond(r, ErrorResponse(msg))
    /\ raised' = [raised EXCEPT ![r] = [at |-> at, msg |-> msg]]
    /\ model' = "None"
    /\ UNCHANGED processor

\* The except clause, lines 88-93: the exception raised at step `at`.
Fail(r, at, msg) ==
    /\ Respond(r, ErrorResponse(msg))
    /\ raised' = [raised EXCEPT ![r] = [at |-> at, msg |-> msg]]
    /\ UNCHANGED <<model, processor>>

Goto(r, next) ==
    /\ pc' = [pc EXCEPT ![r] = next]
    /\ UNCHANGED <<model, processor, response, raised>>

Completed(r, step) == steps' = [steps EXCEPT ![r] = @ \cup {step}]

Failed == {r \in Requests : response[r].code = HttpServerError}

\* A request arrives and the handler checks the handles: lines 36-41.
Receive(r, b) ==
    /\ pc[r] = "idle"
    /\ body' = [body EXCEPT ![r] = b]
    /\ issued' = [issued EXCEPT ![r] = clock]
    /\ afterFailure' = [afterFailure EXCEPT ![r] = (Failed # {})]
    /\ IF Available
       THEN Goto(r, "read")
       ELSE /\ Respond(r, NotInitializedResponse)
            /\ UNCHANGED <<model, processor, raised>>
    /\ UNCHANGED <<clock, dirExists, files, description, duration, call, now,
                   filename, overlap, writes, steps>>

\* lines 44-45
ReadInput(r) ==
    /\ pc[r] = "read"
    /\ LET d == PyInt(GetDuration(body[r])) IN
         \/ /\ ~body[r].json
            /\ Fail(r, "read", "400 Bad Request")
            /\ UNCHANGED <<description, duration, steps>>
         \/ /\ body[r].json /\ ~d.ok
            /\ Fail(r, "read", d.err)
            /\ description' = [description EXCEPT ![r] = GetDescription(body[r])]
            /\ UNCHANGED <<duration, steps>>
         \/ /\ body[r].json /\ d.ok
            /\ description' = [description EXCEPT ![r] = GetDescription(body[r])]
            /\ duration' = [duration EXCEPT ![r] = d.val]
            /\ Completed(r, "read")
            /\ Goto(r, "generate")
    /\ UNCHANGED <<clock, dirExists, files, body, issued, afterFailure, call,
                   now, filename, overlap, writes>>

\* lines 51-66: processor(text=[description]) and
\* model.generate(max_length=duration * 50); either returns the waveform or
\* raises.
Generate(r) ==
    /\ pc[r] = "generate"
    /\ call' = [call EXCEPT ![r] = [text |-> <<description[r]>>,
                                    max_length |-> MaxLength(duration[r])]]
    /\ \/ /\ Completed(r, "generate")
          /\ Goto(r, "name")
       \/ /\ \E msg \in ModelErrors : Fail(r, "generate", msg)
          /\ UNCHANGED steps
    /\ UNCHANGED <<clock, dirExists, files, body, issued, afterFailure,
                   description, duration, now, filename, overlap, writes>>

MakeNameAvoidingCollision(r) ==
    /\ pc[r] = "name"
    /\ now' = [now EXCEPT ![r] = clock]
    /\ filename' = [filename EXCEPT ![r] =
                      IF Filepath(Filename(clock)) \in DOMAIN files
                      THEN [Filename(clock) EXCEPT !.prefix = "generated_music_1_"]
                      ELSE Filename(clock)]
    /\ Completed(r, "name")
    /\ Goto(r, "mkdir")
    /\ UNCHANGED <<clock, dirExists, files, body, issued, afterFailure,
                   description, duration, call, overlap, writes>>

\* lines 69-71
MakeName(r) ==
    /\ pc[r] = "name"
    /\ now' = [now EXCEPT ![r] = clock]
    /\ filename' = [filename EXCEPT ![r] = Filename(clock)]
    /\ Completed(r, "name")
    /\ Goto(r, "mkdir")
    /\ UNCHANGED <<clock, dirExists, files, body, issued, afterFailure,
                   description, duration, call, overlap, writes>>

\* line 74: os.makedirs(..., exist_ok=True) creates the directory when it is
\* missing, or raises.
MakeDirs(r) ==
    /\ pc[r] = "mkdir"
    /\ \/ /\ dirExists' = TRUE
          /\ Completed(r, "mkdir")
          /\ Goto(r, "open")
       \/ /\ ~dirExists
          /\ Fail(r, "mkdir", "Permission denied")
          /\ UNCHANGED <<dirExists, steps>>
    /\ UNCHANGED <<clock, files, body, issued, afterFailure, description,
                   duration, call, now, filename, overlap, writes>>

Writing(path) ==
    {s \in Requests : pc[s] = "write" /\ Filepath(filename[s]) = path}

\* line 80, first half: torchaudio.save opens the file, which creates or
\* truncates it, or raises without creating it.
SaveOpen(r) ==
    /\ pc[r] = "open"
    /\ LET path == Filepath(filename[r]) IN
         \/ /\ files' = [p \in DOMAIN files \cup {path} |->
                           IF p = path THEN {} ELSE files[p]]
            /\ writes' = [writes EXCEPT ![r] = @ + 1]
            /\ overlap' = [s \in Requests |->
                             IF s \in Writing(path) THEN TRUE
                             ELSE IF s = r THEN Writing(path) # {}
                             ELSE overlap[s]]
            /\ Goto(r, "write")
         \/ /\ Fail(r, "save", "Permission denied")
            /\ UNCHANGED <<files, writes, overlap>>
    /\ UNCHANGED <<clock, dirExists, body, issued, afterFailure, description,
                   duration, call, now, filename, steps>>

\* What the file may hold once request r has written its samples: its own
\* waveform when no other write to the path ran meanwhile; otherwise the two
\* unsynchronised writes race, and the file holds what the other left, a
\* mixture, or r's samples.
Written(r, path) ==
    IF overlap[r] THEN {files[path], files[path] \cup {r}, {r}} ELSE {{r}}

\* line 80, second half, and lines 82-86: the samples are written and the
\* handler returns success; or the write raises part-way and the except
\* clause answers, leaving the file that was opened.
SaveWrite(r) ==
    /\ pc[r] = "write"
    /\ LET path == Filepath(filename[r]) IN
         \E data \in Written(r, path) :
            /\ files' = [files EXCEPT ![path] = data]
            /\ \/ /\ Completed(r, "save")
                  /\ Respond(r, SuccessResponse(r))
                  /\ UNCHANGED <<model, processor, raised>>
               \/ /\ Fail(r, "save", "No space left on device")
                  /\ UNCHANGED steps
    /\ UNCHANGED <<clock, dirExists, body, issued, afterFailure, description,
                   duration, call, now, filename, overlap, writes>>

\* A second passes.
Tick ==
    /\ clock < StartSecond + MaxTicks
    /\ clock' = clock + 1
    /\ UNCHANGED <<model, processor, dirExists, files, pc, body, issued,
                   afterFailure, description, duration, call, now, filename,
                   overlap, writes, response, steps, raised>>

Step(r) ==
    \/ ReadInput(r)
    \/ Generate(r)
    \/ MakeName(r)
    \/ MakeDirs(r)
    \/ SaveOpen(r)
    \/ SaveWrite(r)

\* Requests handled concurrently.
Next ==
    \/ \E r \in Requests : \E b \in Bodies : Receive(r, b)
    \/ \E r \in Requests : Step(r)
    \/ Tick

Spec == Init /\ [][Next]_vars

\* A single request, with any body.
NextInput ==
    \/ \E r \in Requests : \E b \in AllBodies :
          (\A s \in Requests : pc[s] = "idle") /\ Receive(r, b)
    \/ \E r \in Requests : Step(r)
    \/ Tick

SpecInput == Init /\ [][NextInput]_vars

---------------------------------------------------------------------------
(* Properties *)

Succeeded == {r \in Requests : response[r].status = "success"}

Quiet == \A r \in Requests : pc[r] \in {"idle", "done"}

\* The requests that opened the file at `path` for writing.
WritersOf(path) ==
    {t \in Requests : writes[t] > 0 /\ Filepath(filename[t]) = path}

\* C1: when the model or the processor failed to load, every request, whatever
\* its body, is answered at once with HTTP 500, status "error" and the fixed
\* message; its input is not read, the model is not called and no file is
\* written.
C1_NotInitialized ==
    \A r \in Requests :
        (pc[r] # "idle" /\ (model = "None" \/ processor = "None")) =>
            /\ pc[r] = "done"
            /\ response[r].code = 500
            /\ response[r].status = "error"
            /\ response[r].message = "Model not initialized properly"
            /\ response[r].file_path = NoPath
            /\ description[r] = "" /\ duration[r] = 0 /\ steps[r] = {}
            /\ call[r] = NoCall
            /\ writes[r] = 0
            /\ files = << >>

C1_Witness ==
    \E r \in Requests :
        /\ model = "None"
        /\ pc[r] = "done"
        /\ body[r] = NotJson
        /\ response[r].code = 500

\* The answer to a request whose model call raised.
C2_Answer ==
    \A r \in Requests :
        raised[r].at = "generate" =>
            /\ pc[r] = "done"
            /\ response[r].code = 500
            /\ response[r].status = "error"
            /\ response[r].message \in ModelErrors
            /\ response[r].message = raised[r].msg
            /\ response[r].file_path = NoPath
            /\ writes[r] = 0
            /\ "save" \notin steps[r]
            /\ \A p \in DOMAIN files : r \notin files[p]

\* A request's steps up to and including the model call write nothing.
C2_NoWrite ==
    \A r \in Requests :
        (pc[r] \in {"idle", "read", "generate"} /\ pc'[r] # pc[r]) =>
            files' = files

\* C2: a request whose model call raised is answered with HTTP 500, status
\* "error" and the exception's message, and it writes no file: it opened
\* none, no file holds its samples, and each of its steps up to the failing
\* call leaves the set of files in the generated directory as it was.
C2_ModelFailure == []C2_Answer /\ [][C2_NoWrite]_vars

C2_Witness ==
    \E r, s \in Requests :
        /\ raised[r].at = "generate"
        /\ response[s].status = "success"

\* C3: whenever a request has returned success, the file its file_path names
\* exists, whatever the interleaving of the requests.
C3_FileExists ==
    \A r \in Requests :
        response[r].status = "success" =>
            /\ response[r].file_path.dir = "/static/generated"
            /\ response[r].file_path.name.prefix = "generated_music_"
            /\ response[r].file_path.name.ext = ".wav"
            /\ StaticFile(response[r].file_path) \in DOMAIN files

\* Two requests returned success with the same path, and the clock has moved
\* on since the path was named.
C3_Witness ==
    \E r, s \in Requests :
        /\ r # s
        /\ response[r].status = "success"
        /\ response[s].status = "success"
        /\ response[r].file_path = response[s].file_path
        /\ clock # now[r]

C5_Budget ==
    \A r \in Requests :
        call[r] # NoCall =>
            /\ call[r].max_length = 50 * duration[r]
            /\ (body[r].hasDur /\ body[r].dur.kind = "int") =>
                   call[r].max_length = 50 * body[r].dur.int
            /\ ~body[r].hasDur => call[r].max_length = 500
            /\ \A b \in AllBodies :
                   (/\ b.json
                    /\ PyInt(GetDuration(b)).ok
                    /\ PyInt(GetDuration(b)).val = 2 * duration[r]) =>
                       MaxLength(PyInt(GetDuration(b)).val)
                           = 2 * call[r].max_length

C5_Witness ==
    \E r \in Requests :
        /\ body[r].hasDur /\ body[r].dur = JInt(-2)
        /\ call[r].max_length = -100
        /\ response[r].status = "success"

\* C6: with the model loaded, a request whose description is empty or absent
\* meets no validation error, and the text handed to the model is the empty
\* description, unchanged.
C6_EmptyDescription ==
    \A r \in Requests :
        (/\ pc[r] # "idle"
         /\ model # "None" /\ processor # "None"
         /\ body[r].json
         /\ (~body[r].hasDesc \/ body[r].desc = "")) =>
            /\ (raised[r].at = "read" => ~PyInt(GetDuration(body[r])).ok)
            /\ (pc[r] # "read" /\ raised[r].at # "read") =>
                   /\ description[r] = ""
                   /\ "read" \in steps[r]
            /\ call[r] # NoCall => call[r].text = <<"">>

C6_Witness ==
    \E r \in Requests :
        /\ body[r].json /\ ~body[r].hasDesc
        /\ call[r].text = <<"">>
        /\ response[r].status = "success"

\* C7: a request whose handling has completed got one of two responses:
\* HTTP 200 with status "success" and a file_path, exactly when coercion,
\* synthesis and the write all completed without an exception; or HTTP 500
\* with status "error" and the message of the exception raised (or the fixed
\* message when the model is not loaded), and no file_path.
C7_TwoOutcomes ==
    \A r \in Requests :
        pc[r] = "done" =>
            /\ \/ /\ response[r].code = 200
                  /\ response[r].status = "success"
                  /\ response[r].file_path = PublicPath(filename[r])
                  /\ response[r].file_path # NoPath
                  /\ raised[r] = NoException
               \/ /\ response[r].code = 500
                  /\ response[r].status = "error"
                  /\ response[r].file_path = NoPath
                  /\ \/ /\ raised[r].at \in {"read", "generate", "mkdir", "save"}
                        /\ response[r].message = raised[r].msg
                     \/ /\ raised[r] = NoException
                        /\ ~Available
                        /\ response[r] = NotInitializedResponse
            /\ response[r].code = 200 <=>
                   {"read", "generate", "mkdir", "save"} \subseteq steps[r]
            /\ response[r].code = 200 <=> raised[r] = NoException /\ Available

C7_Witness ==
    \E r, s \in Requests :
        /\ pc[r] = "done" /\ raised[r].at = "read"
        /\ pc[s] = "done" /\ response[s].code = 200

\* C8 as stated: once no request is in flight, the number of files in the
\* generated directory does not exceed the number of requests that returned
\* success, and each such request opened exactly one file, the one it
\* returned.
C8_FilesWithinSuccesses ==
    /\ \A r \in Succeeded :
          /\ writes[r] = 1
          /\ StaticFile(response[r].file_path) = Filepath(filename[r])
    /\ Quiet => Cardinality(DOMAIN files) <= Cardinality(Succeeded)

C10_AfterFailure ==
    \A s \in Requests :
        (afterFailure[s] /\ pc[s] = "done" /\ response[s].code = 500) =>
            \/ raised[s] # NoException
            \/ \A r \in Requests : pc[r] # "idle" => response[r] = NotInitializedResponse

\* C10: no step changes the model handles, so the service is available in
\* every state exactly when it was after startup; a request that arrives
\* after another ended in an error is handled as any other: it fails only on
\* an exception of its own.
C10_HandleUnchanged ==
    /\ [][model' = model /\ processor' = processor /\ Available' = Available]_vars
    /\ []C10_AfterFailure

C10_Witness ==
    \E r, s \in Requests :
        /\ raised[r] # NoException
        /\ afterFailure[s]
        /\ response[s].code = 200

===========================================================================
